---------------------------- MODULE Spec2Model ----------------------------
(***************************************************************************)
(* Model of the visual-search vector store                                 *)
(* (src/src/visualsearchservice/app/vector_store.py, class VectorStore):   *)
(* a FAISS IndexFlatL2 index, the parallel list of product ids, the        *)
(* metadata dictionary, and the two files save_index / load_index use.     *)
(*                                                                         *)
(* Numbers.  Embedding components are small integers, so the squared L2    *)
(* distances FAISS returns are integers.  A similarity exp(-d) and a       *)
(* threshold are counted in half-millionths: the even number 2k is exactly *)
(* k millionths, the odd number 2k+1 is any value strictly between k and   *)
(* k+1 millionths (2000000 is 1.0, 735759 is exp(-1) = 0.3678794...).      *)
(* A comparison of a similarity with a threshold that is a whole number of *)
(* millionths then comes out as it does on the float32 values.             *)
(***************************************************************************)
EXTENDS Integers, Sequences, FiniteSets, TLC

VARIABLES
    dimension,          \* self.dimension
    index,              \* self.index: the FAISS index, [d, xb]; ntotal = Len(xb)
    product_ids,        \* self.product_ids
    product_metadata,   \* self.product_metadata: product id -> metadata dict
    index_file,         \* contents of data/faiss_index.bin
    metadata_file,      \* contents of data/metadata.pkl
    saved,              \* history: the store state the snapshot on disk was written from
    last,               \* the last call: its arguments and what it returned or raised
    peer,               \* what a second process got from load_index on the same files
    inflight,           \* HTTP requests accepted and not yet answered, by handler
    tie_order           \* the installed faiss build: its order among equal distances

vars == <<dimension, index, product_ids, product_metadata,
          index_file, metadata_file, saved, last, peer, inflight, tie_order>>

mem == <<dimension, index, product_ids, product_metadata>>
disk == <<index_file, metadata_file>>
env == <<peer, inflight, tie_order>>

-----------------------------------------------------------------------------
(* Bounds and input sets *)

\* The largest number of entries the model lets a store grow to.
MaxSize == 3

\* The dimensions a store is constructed with.
Dimensions == {2}

\* The values an embedding component takes.
Components == {0, 1}

RECURSIVE VectorsOfLen(_)
VectorsOfLen(n) ==
    IF n = 0 THEN {<<>>}
    ELSE {Append(v, c) : v \in VectorsOfLen(n - 1), c \in Components}

\* Embeddings of the store's dimension.
Embeddings(d) == VectorsOfLen(d)

\* The catalogue embeddings of the search specification: 0..0, 0..01,
\* 0..011, ..., 1..1.
Staircase(d) == {[i \in 1..d |-> IF i > j THEN 1 ELSE 0] : j \in 0..d}

\* A vector that is not normalised and lies far from every 0/1 vector
\* (squared distance at least 242).
Far(d) == [i \in 1..d |-> 12]

\* Vectors of a wrong length: one component short, one component long.
TooShort(d) == [i \in 1..(d - 1) |-> 0]
TooLong(d) == [i \in 1..(d + 1) |-> 0]
BadEmbeddings(d) == {TooShort(d), TooLong(d)}

ProductIds == {"A", "B"}

\* Python's None as the value of an absent field of a match.
None == "None"

\* A metadata dict is a function from its keys to their values.
EmptyDict == [k \in {} |-> None]
Meta1 == [name |-> "n1", image_url |-> "u1", price |-> "p1"]
Meta2 == [name |-> "n2"]

\* The optional metadata argument of add_product: <<>> is None (the
\* default), <<m>> is the dict m.
NoMetadata == <<>>
MetadataArgs == {NoMetadata, <<EmptyDict>>, <<Meta1>>, <<Meta2>>}

\* top_k as the HTTP layer passes it (main.py validates ge=1).
TopKs == 1..(MaxSize + 1)

\* Thresholds: 0.0, 0.367879 and 0.367880 (the millionths on either side of
\* exp(-1), the similarity at squared distance 1) and 1.0 (the similarity of
\* an identical embedding, so that equality with the threshold occurs).
Thresholds == {0, 735758, 735760, 2000000}

\* The small catalogue of the service-lifecycle specification: the unit
\* vectors, one product id, metadata given or not, and search called with
\* its default top_k = 5 and with threshold 0.0 or its default 0.7.
MaxLiveSize == 2
LiveEmbeddings(d) == {[i \in 1..d |-> IF i = j THEN 1 ELSE 0] : j \in 1..d}
LiveIds == {"A"}
LiveMetadataArgs == {NoMetadata, <<Meta1>>}
LiveTopKs == {5}
LiveThresholds == {0, 1400000}

-----------------------------------------------------------------------------
(* The FAISS index: faiss.IndexFlatL2 *)

\* faiss.IndexFlatL2(dimension): an empty index of dimension d.
IndexFlatL2(d) == [d |-> d, xb |-> <<>>]

ntotal(idx) == Len(idx.xb)

\* A variant that puts the new vector in front of the stored ones.
IndexAddFront(idx, x) == [idx EXCEPT !.xb = <<x>> \o @]

\* index.add(features_2d): append one vector.
IndexAdd(idx, x) == [idx EXCEPT !.xb = Append(@, x)]

RECURSIVE SumSq(_, _, _)
SumSq(x, y, i) ==
    IF i = 0 THEN 0
    ELSE (x[i] - y[i]) * (x[i] - y[i]) + SumSq(x, y, i - 1)

\* The distance IndexFlatL2 reports: the squared Euclidean distance.
L2sqr(x, y) == SumSq(x, y, Len(x))

\* The order in which index.search hands back stored vectors at equal
\* distance from the query.  Neither vector_store.py nor faiss's interface
\* fixes it: it is what the result heap of the installed faiss build
\* leaves, the smaller position first in builds whose heap compares the
\* labels of equal distances, another order in builds whose heap does not.
\* The two values are the two extremes, the smaller position first
\* throughout and the larger first throughout.  The service pins no build;
\* a process keeps the one it runs on.
TieOrders == {"low", "high"}

\* Whether position p ranks before position r for query q: the smaller
\* distance first, and among equal distances as the build has it.
Before(xb, q, p, r) ==
    LET dp == L2sqr(q, xb[p])
        dr == L2sqr(q, xb[r])
    IN  \/ dp < dr
        \/ /\ dp = dr
           /\ IF tie_order = "low" THEN p < r ELSE p > r

\* The best position among those of cand.
Best(xb, q, cand) ==
    CHOOSE p \in cand : \A r \in cand \ {p} : Before(xb, q, p, r)

\* A variant that does not take the position it has picked out of the
\* candidates: it returns the best position k times.
RECURSIVE TopKRepeating(_, _, _, _)
TopKRepeating(xb, q, k, cand) ==
    IF k = 0 \/ cand = {} THEN <<>>
    ELSE LET p == Best(xb, q, cand)
         IN  <<[idx |-> p - 1, distance |-> L2sqr(q, xb[p])]>>
                 \o TopKRepeating(xb, q, k - 1, cand)

RECURSIVE TopK(_, _, _, _)
TopK(xb, q, k, cand) ==
    IF k = 0 \/ cand = {} THEN <<>>
    ELSE LET p == Best(xb, q, cand)
         IN  <<[idx |-> p - 1, distance |-> L2sqr(q, xb[p])]>>
                 \o TopK(xb, q, k - 1, cand \ {p})

\* index.search(query_2d, k): the k nearest stored vectors as
\* (0-based position, distance) pairs, nearest first.
IndexSearch(idx, q, k) == TopK(idx.xb, q, k, 1..ntotal(idx))

-----------------------------------------------------------------------------
(* VectorStore: the handlers as functions of the store *)

\* A variant that has lost the minus sign: it grows with the distance.
ExpPos(d) == 2000000 + 2000000 * d

\* The squared distance from which float32 exp(-d) is 0.0: exp(-104) is
\* below half of the smallest float32 subnormal, 2^-149.
Float32ExpUnderflow == 104

\* np.exp(-distance) on float32, for the distances integer embeddings
\* give, in half-millionths: exp(-4) = 0.018315639 lies between 18315 and
\* 18316 millionths and is 2 * 18315 + 1.  Only exp(-0) is a whole number
\* of millionths; from distance 14 on the value is below one millionth,
\* and from the underflow point on it is the float32 0.0.
ExpNeg(d) ==
    CASE d = 0 -> 2000000
      [] d = 1 -> 735759
      [] d = 2 -> 270671
      [] d = 3 -> 99575
      [] d = 4 -> 36631
      [] d = 5 -> 13475
      [] d = 6 -> 4957
      [] d = 7 -> 1823
      [] d = 8 -> 671
      [] d = 9 -> 247
      [] d = 10 -> 91
      [] d = 11 -> 33
      [] d = 12 -> 13
      [] d = 13 -> 5
      [] d >= 14 /\ d < Float32ExpUnderflow -> 1
      [] OTHER -> 0

Min(a, b) == IF a <= b THEN a ELSE b

\* `if metadata:` -- None and the empty dict are both false.
Truthy(m) == m # NoMetadata /\ DOMAIN m[1] # {}

\* d[k] = v on a dict.
DictSet(d, k, v) == [x \in DOMAIN d \cup {k} |-> IF x = k THEN v ELSE d[x]]

\* d.get(k, default)
DictGet(d, k, default) == IF k \in DOMAIN d THEN d[k] ELSE default

\* A variant of the check that lets a longer vector through.
DimensionOkAtLeast(dim, features) == Len(features) >= dim

\* add_product's check of the feature vector against self.dimension.
DimensionOk(dim, features) == Len(features) = dim

\* A variant that keeps the first metadata stored for an id.
StoreMetadataKeepFirst(md, product_id, metadata) ==
    IF Truthy(metadata) /\ product_id \notin DOMAIN md
    THEN DictSet(md, product_id, metadata[1])
    ELSE md

\* A variant that tests "metadata is not None": an empty dict is stored.
StoreMetadataNotNone(md, product_id, metadata) ==
    IF metadata # NoMetadata THEN DictSet(md, product_id, metadata[1]) ELSE md

\* The metadata map after add_product(product_id, _, metadata).
StoreMetadata(md, product_id, metadata) ==
    IF Truthy(metadata) THEN DictSet(md, product_id, metadata[1]) ELSE md

\* A variant that keeps one entry per product id: an id that is already
\* in the store is accepted and nothing is added.
add_productUnique(dim, idx, ids, md, product_id, features, metadata) ==
    IF ~DimensionOk(dim, features)
    THEN [outcome |-> "ValueError", index |-> idx,
          product_ids |-> ids, product_metadata |-> md]
    ELSE IF Len(features) # idx.d
    THEN [outcome |-> "AssertionError", index |-> idx,
          product_ids |-> ids, product_metadata |-> md]
    ELSE IF \E p \in 1..Len(ids) : ids[p] = product_id
    THEN [outcome |-> "ok", index |-> idx,
          product_ids |-> ids, product_metadata |-> md]
    ELSE [outcome |-> "ok", index |-> IndexAdd(idx, features),
          product_ids |-> Append(ids, product_id),
          product_metadata |-> StoreMetadata(md, product_id, metadata)]

\* add_product: the outcome and the store it leaves.  index.add itself
\* refuses a vector that is not of the index's own dimension.
add_product(dim, idx, ids, md, product_id, features, metadata) ==
    IF ~DimensionOk(dim, features)
    THEN [outcome |-> "ValueError", index |-> idx,
          product_ids |-> ids, product_metadata |-> md]
    ELSE IF Len(features) # idx.d
    THEN [outcome |-> "AssertionError", index |-> idx,
          product_ids |-> ids, product_metadata |-> md]
    ELSE [outcome |-> "ok", index |-> IndexAdd(idx, features),
          product_ids |-> Append(ids, product_id),
          product_metadata |-> StoreMetadata(md, product_id, metadata)]

\* get_index_size
get_index_size(idx) == ntotal(idx)

\* A variant that labels every match with the first id of the list.
SimilarProductFirstId(ids, md, hit) ==
    LET product_id == ids[1]
        metadata == DictGet(md, product_id, EmptyDict)
    IN  [product_id |-> product_id,
         similarity_score |-> ExpNeg(hit.distance),
         product_name |-> DictGet(metadata, "name", None),
         product_image_url |-> DictGet(metadata, "image_url", None),
         price |-> DictGet(metadata, "price", None)]

\* The SimilarProduct built for one surviving candidate.
SimilarProduct(ids, md, hit) ==
    LET product_id == ids[hit.idx + 1]
        metadata == DictGet(md, product_id, EmptyDict)
    IN  [product_id |-> product_id,
         similarity_score |-> ExpNeg(hit.distance),
         product_name |-> DictGet(metadata, "name", None),
         product_image_url |-> DictGet(metadata, "image_url", None),
         price |-> DictGet(metadata, "price", None)]

\* A variant that also drops a candidate whose similarity equals the threshold.
KeepsAbove(similarity, threshold) == ~(similarity <= threshold)

\* A variant with the comparison the wrong way round.
KeepsBelow(similarity, threshold) == ~(similarity > threshold)

\* `if similarity < threshold: continue` -- whether a candidate is kept.
Keeps(similarity, threshold) == ~(similarity < threshold)

\* The loop over the candidates from candidate i on: the matches so far,
\* or IndexError when a kept candidate's position is not in product_ids.
RECURSIVE ResultLoop(_, _, _, _, _, _)
ResultLoop(ids, md, hits, threshold, i, results) ==
    IF i > Len(hits) THEN [outcome |-> "ok", results |-> results]
    ELSE IF ~Keeps(ExpNeg(hits[i].distance), threshold)
    THEN ResultLoop(ids, md, hits, threshold, i + 1, results)
    ELSE IF hits[i].idx + 1 > Len(ids)
    THEN [outcome |-> "IndexError", results |-> <<>>]
    ELSE ResultLoop(ids, md, hits, threshold, i + 1,
                    Append(results, SimilarProduct(ids, md, hits[i])))

\* A variant that asks the index for every stored vector.
CandidatesUncapped(idx, query_features, top_k) ==
    IndexSearch(idx, query_features, ntotal(idx))

\* The candidates search asks the index for.
Candidates(idx, query_features, top_k) ==
    IndexSearch(idx, query_features, Min(top_k, ntotal(idx)))

\* A variant that cuts a query that is too long down to the index's
\* dimension instead of handing it to the index as it is.
searchTruncating(idx, ids, md, query_features, top_k, threshold) ==
    IF ntotal(idx) = 0
    THEN [outcome |-> "ok", results |-> <<>>, hits |-> <<>>]
    ELSE IF Len(query_features) < idx.d
    THEN [outcome |-> "AssertionError", results |-> <<>>, hits |-> <<>>]
    ELSE IF Min(top_k, ntotal(idx)) <= 0
    THEN [outcome |-> "AssertionError", results |-> <<>>, hits |-> <<>>]
    ELSE LET q == SubSeq(query_features, 1, idx.d)
             hits == Candidates(idx, q, top_k)
             r == ResultLoop(ids, md, hits, threshold, 1, <<>>)
         IN  [outcome |-> r.outcome, results |-> r.results, hits |-> hits]

\* A variant without the early return on an empty index: the query goes to
\* the index, which refuses a wrong dimension and k <= 0.
searchUnguarded(idx, ids, md, query_features, top_k, threshold) ==
    IF Len(query_features) # idx.d \/ Min(top_k, ntotal(idx)) <= 0
    THEN [outcome |-> "AssertionError", results |-> <<>>, hits |-> <<>>]
    ELSE LET hits == Candidates(idx, query_features, top_k)
             r == ResultLoop(ids, md, hits, threshold, 1, <<>>)
         IN  [outcome |-> r.outcome, results |-> r.results, hits |-> hits]

\* search: the outcome, the matches, and the candidates it considered.
\* index.search asserts the query's dimension and then k > 0; top_k goes
\* to it unchecked, as min(top_k, ntotal).
search(idx, ids, md, query_features, top_k, threshold) ==
    IF ntotal(idx) = 0
    THEN [outcome |-> "ok", results |-> <<>>, hits |-> <<>>]
    ELSE IF Len(query_features) # idx.d
    THEN [outcome |-> "AssertionError", results |-> <<>>, hits |-> <<>>]
    ELSE IF Min(top_k, ntotal(idx)) <= 0
    THEN [outcome |-> "AssertionError", results |-> <<>>, hits |-> <<>>]
    ELSE LET hits == Candidates(idx, query_features, top_k)
             r == ResultLoop(ids, md, hits, threshold, 1, <<>>)
         IN  [outcome |-> r.outcome, results |-> r.results, hits |-> hits]

-----------------------------------------------------------------------------
(* Persistence: the two files and their formats *)

\* A file that does not exist, and one whose write stopped part-way: the
\* file holds a part of what was to be written and cannot be decoded.
NoFile == [kind |-> "absent"]
Torn == [kind |-> "torn"]

\* A metadata file cut where an item of the pickle begins: the empty file
\* open(.., 'wb') leaves before pickle.dump writes is one.  pickle.load
\* then runs out of input (EOFError); cut inside an item (Torn) it raises
\* UnpicklingError.
Truncated == [kind |-> "truncated"]

RECURSIVE Flatten(_)
Flatten(xb) == IF xb = <<>> THEN <<>> ELSE Head(xb) \o Flatten(Tail(xb))

\* faiss.write_index: the header (d, ntotal) and the vectors as one flat
\* array of ntotal * d numbers.
WriteIndex(idx) ==
    [kind |-> "index", d |-> idx.d, ntotal |-> ntotal(idx), codes |-> Flatten(idx.xb)]

\* A variant that steps through the flat array by one number, not by d.
RowUnscaled(codes, d, i) == SubSeq(codes, i, i + d - 1)

\* The i-th vector of a flat array of vectors of dimension d.
Row(codes, d, i) == SubSeq(codes, (i - 1) * d + 1, i * d)

\* faiss.read_index of a complete index file.
ReadIndex(file) ==
    [d |-> file.d, xb |-> [i \in 1..file.ntotal |-> Row(file.codes, file.d, i)]]

\* pickle.dump of {'product_ids': ids, 'product_metadata': md}: the list,
\* and the dict as its (key, value) items.
PickleDump(ids, md) ==
    [kind |-> "pickle", product_ids |-> ids,
     items |-> {<<k, md[k]>> : k \in DOMAIN md}]

\* The dict rebuilt from its pickled items.
DictOfItems(items) ==
    [k \in {it[1] : it \in items} |-> (CHOOSE it \in items : it[1] = k)[2]]

\* pickle.load of a complete metadata file.
PickleLoad(file) ==
    [product_ids |-> file.product_ids,
     product_metadata |-> DictOfItems(file.items)]

\* Where save_index can fail: creating the directory, opening the index
\* file, writing it, closing it, opening the metadata file, writing it
\* with the file left cut at the beginning of an item (empty, for one) or
\* inside one.  faiss.write_index writes through the C library's buffer
\* and closes the file in a destructor: a write that fails as the buffer
\* is flushed at the close ("close_index") is printed, not raised, so the
\* index file is left cut and save_index goes on to the metadata file,
\* which is written or fails in its turn.
SaveFaults ==
    {"none", "makedirs", "open_index", "write_index", "close_index",
     "open_metadata", "dump_start", "dump",
     "close_index+open_metadata", "close_index+dump_start",
     "close_index+dump"}

\* The faults in which the write of the index file fails at the close.
CutAtClose ==
    {"close_index", "close_index+open_metadata", "close_index+dump_start",
     "close_index+dump"}

\* The index file faiss.write_index leaves when it returns.
IndexFileWritten(idx, fault) ==
    IF fault \in CutAtClose THEN Torn ELSE WriteIndex(idx)

\* The faults that leave both files as they were.
TouchesNoFile == {"makedirs", "open_index"}

\* The faults that can happen with the files as they are:
\* os.makedirs(.., exist_ok=True) cannot fail on a directory that is
\* there, and it is there when it holds a file.
PossibleFaults(ifile, mfile) ==
    IF ifile = NoFile /\ mfile = NoFile
    THEN SaveFaults ELSE SaveFaults \ {"makedirs"}

\* save_index: the outcome and the files it leaves.  The index file is
\* written first and in place, the metadata file second and in place.  The
\* call returns normally when nothing raised, which is also the case when
\* the index file was cut at its close and the metadata file was written.
save_index(idx, ids, md, ifile, mfile, fault) ==
    CASE fault = "makedirs" ->
            [outcome |-> "OSError", index_file |-> ifile, metadata_file |-> mfile]
      [] fault = "open_index" ->
            [outcome |-> "RuntimeError", index_file |-> ifile,
             metadata_file |-> mfile]
      [] fault = "write_index" ->
            [outcome |-> "RuntimeError", index_file |-> Torn, metadata_file |-> mfile]
      [] fault \in {"open_metadata", "close_index+open_metadata"} ->
            [outcome |-> "OSError",
             index_file |-> IndexFileWritten(idx, fault),
             metadata_file |-> mfile]
      [] fault \in {"dump_start", "close_index+dump_start"} ->
            [outcome |-> "OSError",
             index_file |-> IndexFileWritten(idx, fault),
             metadata_file |-> Truncated]
      [] fault \in {"dump", "close_index+dump"} ->
            [outcome |-> "OSError",
             index_file |-> IndexFileWritten(idx, fault),
             metadata_file |-> Torn]
      [] OTHER ->
            [outcome |-> "ok", index_file |-> IndexFileWritten(idx, fault),
             metadata_file |-> PickleDump(ids, md)]

\* A variant that starts over when there is no index file: it leaves an
\* empty store.
load_indexResetting(idx, ids, md, ifile, mfile) ==
    IF ifile.kind = "absent"
    THEN [outcome |-> "ok", loaded |-> FALSE,
          index |-> IndexFlatL2(idx.d),
          product_ids |-> <<>>, product_metadata |-> EmptyDict]
    ELSE IF ifile.kind = "torn"
    THEN [outcome |-> "RuntimeError", loaded |-> FALSE, index |-> idx,
          product_ids |-> ids, product_metadata |-> md]
    ELSE IF mfile.kind = "absent"
    THEN [outcome |-> "FileNotFoundError", loaded |-> FALSE,
          index |-> ReadIndex(ifile),
          product_ids |-> ids, product_metadata |-> md]
    ELSE IF mfile.kind = "truncated"
    THEN [outcome |-> "EOFError", loaded |-> FALSE,
          index |-> ReadIndex(ifile),
          product_ids |-> ids, product_metadata |-> md]
    ELSE IF mfile.kind = "torn"
    THEN [outcome |-> "UnpicklingError", loaded |-> FALSE,
          index |-> ReadIndex(ifile),
          product_ids |-> ids, product_metadata |-> md]
    ELSE [outcome |-> "ok", loaded |-> TRUE, index |-> ReadIndex(ifile),
          product_ids |-> PickleLoad(mfile).product_ids,
          product_metadata |-> PickleLoad(mfile).product_metadata]

\* A variant that merges: it appends what the files hold to what the store
\* holds.
load_indexMerging(idx, ids, md, ifile, mfile) ==
    IF ifile.kind = "absent"
    THEN [outcome |-> "ok", loaded |-> FALSE, index |-> idx,
          product_ids |-> ids, product_metadata |-> md]
    ELSE IF ifile.kind = "torn"
    THEN [outcome |-> "RuntimeError", loaded |-> FALSE, index |-> idx,
          product_ids |-> ids, product_metadata |-> md]
    ELSE IF mfile.kind = "absent"
    THEN [outcome |-> "FileNotFoundError", loaded |-> FALSE,
          index |-> ReadIndex(ifile),
          product_ids |-> ids, product_metadata |-> md]
    ELSE IF mfile.kind = "truncated"
    THEN [outcome |-> "EOFError", loaded |-> FALSE,
          index |-> ReadIndex(ifile),
          product_ids |-> ids, product_metadata |-> md]
    ELSE IF mfile.kind = "torn"
    THEN [outcome |-> "UnpicklingError", loaded |-> FALSE,
          index |-> ReadIndex(ifile),
          product_ids |-> ids, product_metadata |-> md]
    ELSE [outcome |-> "ok", loaded |-> TRUE,
          index |-> [ReadIndex(ifile) EXCEPT !.xb = idx.xb \o @],
          product_ids |-> ids \o PickleLoad(mfile).product_ids,
          product_metadata |->
              [k \in DOMAIN md \cup DOMAIN PickleLoad(mfile).product_metadata |->
                  IF k \in DOMAIN PickleLoad(mfile).product_metadata
                  THEN PickleLoad(mfile).product_metadata[k] ELSE md[k]]]

\* A variant without the check that the index file exists: reading the
\* missing file raises.
load_indexUnchecked(idx, ids, md, ifile, mfile) ==
    IF ifile.kind \in {"absent", "torn"}
    THEN [outcome |-> "RuntimeError", loaded |-> FALSE, index |-> idx,
          product_ids |-> ids, product_metadata |-> md]
    ELSE IF mfile.kind = "absent"
    THEN [outcome |-> "FileNotFoundError", loaded |-> FALSE,
          index |-> ReadIndex(ifile),
          product_ids |-> ids, product_metadata |-> md]
    ELSE IF mfile.kind = "truncated"
    THEN [outcome |-> "EOFError", loaded |-> FALSE,
          index |-> ReadIndex(ifile),
          product_ids |-> ids, product_metadata |-> md]
    ELSE IF mfile.kind = "torn"
    THEN [outcome |-> "UnpicklingError", loaded |-> FALSE,
          index |-> ReadIndex(ifile),
          product_ids |-> ids, product_metadata |-> md]
    ELSE [outcome |-> "ok", loaded |-> TRUE, index |-> ReadIndex(ifile),
          product_ids |-> PickleLoad(mfile).product_ids,
          product_metadata |-> PickleLoad(mfile).product_metadata]

\* load_index: the outcome and the store it leaves.  self.index is assigned
\* as soon as the index file is read, before the metadata file is opened.
load_index(idx, ids, md, ifile, mfile) ==
    IF ifile.kind = "absent"
    THEN [outcome |-> "ok", loaded |-> FALSE, index |-> idx,
          product_ids |-> ids, product_metadata |-> md]
    ELSE IF ifile.kind = "torn"
    THEN [outcome |-> "RuntimeError", loaded |-> FALSE, index |-> idx,
          product_ids |-> ids, product_metadata |-> md]
    ELSE IF mfile.kind = "absent"
    THEN [outcome |-> "FileNotFoundError", loaded |-> FALSE,
          index |-> ReadIndex(ifile),
          product_ids |-> ids, product_metadata |-> md]
    ELSE IF mfile.kind = "truncated"
    THEN [outcome |-> "EOFError", loaded |-> FALSE,
          index |-> ReadIndex(ifile),
          product_ids |-> ids, product_metadata |-> md]
    ELSE IF mfile.kind = "torn"
    THEN [outcome |-> "UnpicklingError", loaded |-> FALSE,
          index |-> ReadIndex(ifile),
          product_ids |-> ids, product_metadata |-> md]
    ELSE [outcome |-> "ok", loaded |-> TRUE, index |-> ReadIndex(ifile),
          product_ids |-> PickleLoad(mfile).product_ids,
          product_metadata |-> PickleLoad(mfile).product_metadata]

-----------------------------------------------------------------------------
(* The state machine: one store per process, the files outliving it *)

\* The store as __init__ leaves it.
IsFresh(idx, ids, md) == ntotal(idx) = 0 /\ ids = <<>> /\ DOMAIN md = {}

\* The history value when the disk holds no snapshot written in one piece.
NoSnapshot == <<>>

\* No second process has loaded the files; no request is in flight.
NoPeer == <<>>
NoRequests == [search |-> 0, index |-> 0, batch |-> 0, adding |-> <<>>]

Init ==
    /\ peer = NoPeer
    /\ inflight = NoRequests
    /\ tie_order \in TieOrders
    /\ dimension \in Dimensions
    /\ index = IndexFlatL2(dimension)
    /\ product_ids = <<>>
    /\ product_metadata = EmptyDict
    /\ index_file = NoFile
    /\ metadata_file = NoFile
    /\ saved = NoSnapshot
    /\ last = [op |-> "__init__"]

\* A new process constructs its store; the files stay as they are.
NewStore ==
    /\ dimension' \in Dimensions
    /\ index' = IndexFlatL2(dimension')
    /\ product_ids' = <<>>
    /\ product_metadata' = EmptyDict
    /\ last' = [op |-> "__init__"]
    /\ UNCHANGED <<index_file, metadata_file, saved>>

\* A variant that writes the snapshot files after every add.
AddProductAutosave(pids, feats, metas, maxsize) ==
    \E product_id \in pids, features \in feats, metadata \in metas :
        LET r == add_product(dimension, index, product_ids, product_metadata,
                             product_id, features, metadata)
        IN  /\ ntotal(r.index) <= maxsize
            /\ Len(r.product_ids) <= maxsize
            /\ index' = r.index
            /\ product_ids' = r.product_ids
            /\ product_metadata' = r.product_metadata
            /\ last' = [op |-> "add_product", product_id |-> product_id,
                        features |-> features, metadata |-> metadata,
                        outcome |-> r.outcome]
            /\ index_file' = WriteIndex(r.index)
            /\ metadata_file' = PickleDump(r.product_ids, r.product_metadata)
            /\ UNCHANGED <<dimension, saved>>

\* add_product(product_id, features, metadata) with arguments from the
\* given sets, on a store the model lets grow to maxsize entries.
AddProduct(pids, feats, metas, maxsize) ==
    \E product_id \in pids, features \in feats, metadata \in metas :
        LET r == add_product(dimension, index, product_ids, product_metadata,
                             product_id, features, metadata)
        IN  /\ ntotal(r.index) <= maxsize
            /\ Len(r.product_ids) <= maxsize
            /\ index' = r.index
            /\ product_ids' = r.product_ids
            /\ product_metadata' = r.product_metadata
            /\ last' = [op |-> "add_product", product_id |-> product_id,
                        features |-> features, metadata |-> metadata,
                        outcome |-> r.outcome]
            /\ UNCHANGED <<dimension, index_file, metadata_file, saved>>

\* The record of one search call: its arguments, its outcome, the matches
\* it returned and the candidates it considered.
SearchCall(query_features, top_k, threshold, r) ==
    [op |-> "search", query_features |-> query_features,
     top_k |-> top_k, threshold |-> threshold,
     outcome |-> r.outcome, results |-> r.results, hits |-> r.hits]

\* A variant whose error path empties the store before it re-raises.
SearchClearing(queries, ks, ts) ==
    \E query_features \in queries, top_k \in ks, threshold \in ts :
        LET r == search(index, product_ids, product_metadata,
                        query_features, top_k, threshold)
        IN  /\ last' = SearchCall(query_features, top_k, threshold, r)
            /\ IF r.outcome = "ok"
               THEN UNCHANGED <<index, product_ids, product_metadata>>
               ELSE /\ index' = IndexFlatL2(dimension)
                    /\ product_ids' = <<>>
                    /\ product_metadata' = EmptyDict
            /\ UNCHANGED <<dimension, disk, saved>>

\* search(query_features, top_k, threshold) with arguments from the given sets.
Search(queries, ks, ts) ==
    \E query_features \in queries, top_k \in ks, threshold \in ts :
        LET r == search(index, product_ids, product_metadata,
                        query_features, top_k, threshold)
        IN  /\ last' = SearchCall(query_features, top_k, threshold, r)
            /\ UNCHANGED <<mem, disk, saved>>

\* Matches with the first two exchanged when their scores are equal.
SwapTies(results) ==
    IF Len(results) >= 2
         /\ results[1].similarity_score = results[2].similarity_score
    THEN <<results[2], results[1]>> \o SubSeq(results, 3, Len(results))
    ELSE results

\* A variant that breaks ties anew on every call: matches of equal score
\* come back in one order or the other.
SearchAgainRedrawing ==
    /\ last.op = "search"
    /\ \E flip \in BOOLEAN :
        LET r == search(index, product_ids, product_metadata,
                        last.query_features, last.top_k, last.threshold)
        IN  last' = [op |-> "search", query_features |-> last.query_features,
                     top_k |-> last.top_k, threshold |-> last.threshold,
                     outcome |-> r.outcome,
                     results |-> IF flip THEN SwapTies(r.results)
                                 ELSE r.results,
                     hits |-> r.hits,
                     before |-> [outcome |-> last.outcome,
                                 results |-> last.results]]
    /\ UNCHANGED <<mem, disk, saved>>

\* search called once more with the arguments of the call before it, on
\* the store as that call left it; what the call before returned is kept
\* next to what this one returns.
SearchAgain ==
    /\ last.op = "search"
    /\ LET r == search(index, product_ids, product_metadata,
                       last.query_features, last.top_k, last.threshold)
       IN  last' = [op |-> "search", query_features |-> last.query_features,
                    top_k |-> last.top_k, threshold |-> last.threshold,
                    outcome |-> r.outcome, results |-> r.results,
                    hits |-> r.hits,
                    before |-> [outcome |-> last.outcome,
                                results |-> last.results]]
    /\ UNCHANGED <<mem, disk, saved>>

\* save_index(), failing at any of the given places or not at all.
SaveIndex(faults) ==
    \E fault \in faults \cap PossibleFaults(index_file, metadata_file) :
        LET r == save_index(index, product_ids, product_metadata,
                            index_file, metadata_file, fault)
        IN  /\ index_file' = r.index_file
            /\ metadata_file' = r.metadata_file
            /\ saved' = IF fault = "none"
                         THEN <<[index |-> index, product_ids |-> product_ids,
                                 product_metadata |-> product_metadata]>>
                         ELSE IF fault \in TouchesNoFile THEN saved
                         ELSE NoSnapshot
            /\ last' = [op |-> "save_index", outcome |-> r.outcome]
            /\ UNCHANGED mem

\* load_index()
LoadIndex ==
    LET r == load_index(index, product_ids, product_metadata,
                        index_file, metadata_file)
    IN  /\ index' = r.index
        /\ product_ids' = r.product_ids
        /\ product_metadata' = r.product_metadata
        /\ last' = [op |-> "load_index", outcome |-> r.outcome,
                    loaded |-> r.loaded,
                    fresh |-> IsFresh(index, product_ids, product_metadata)]
        /\ UNCHANGED <<dimension, disk, saved>>

-----------------------------------------------------------------------------
(* Spec: a service process under any sequence of calls, failures and       *)
(* restarts, on a small catalogue.                                         *)

LiveAdd ==
    /\ AddProduct(LiveIds, LiveEmbeddings(dimension) \cup {TooLong(dimension)},
                  LiveMetadataArgs, MaxLiveSize)
    /\ UNCHANGED env

LiveSearch ==
    /\ Search(LiveEmbeddings(dimension) \cup {TooLong(dimension)},
              LiveTopKs, LiveThresholds)
    /\ UNCHANGED env

LiveSave == SaveIndex(SaveFaults) /\ UNCHANGED env

LiveLoad == LoadIndex /\ UNCHANGED env

Restart == NewStore /\ UNCHANGED env

Next == LiveAdd \/ LiveSearch \/ LiveSave \/ LiveLoad \/ Restart

Spec == Init /\ [][Next]_vars

-----------------------------------------------------------------------------
(* SpecSearch: a client fills a store with add_product calls and then      *)
(* issues one query: any embedding of the dimension, a far-away vector, or *)
(* a vector that is too long.  Search leaves the store as it is, so the    *)
(* runs that go on after a query add no new (store, query) pair.           *)

Filling == last.op \in {"__init__", "add_product"}

FillStore ==
    /\ Filling
    /\ AddProduct(ProductIds, Staircase(dimension), {NoMetadata}, MaxSize)
    /\ UNCHANGED env

Query ==
    /\ Filling
    /\ Search(Embeddings(dimension)
                 \cup {Far(dimension), TooLong(dimension)},
              TopKs, Thresholds)
    /\ UNCHANGED env

NextSearch == FillStore \/ Query

SpecSearch == Init /\ [][NextSearch]_vars

-----------------------------------------------------------------------------
(* SpecRoundTrip: a process fills a store and saves it; a new process      *)
(* constructs a fresh store and loads what the first one left on disk.     *)

Unsaved == Filling /\ index_file = NoFile /\ metadata_file = NoFile

FillCatalogue ==
    /\ Unsaved
    /\ AddProduct(ProductIds, Embeddings(dimension), MetadataArgs, MaxSize)
    /\ UNCHANGED env

SaveCatalogue == Unsaved /\ SaveIndex(SaveFaults) /\ UNCHANGED env

NextProcess == last.op = "save_index" /\ NewStore /\ UNCHANGED env

LoadCatalogue ==
    /\ last.op = "__init__"
    /\ index_file # NoFile
    /\ LoadIndex
    /\ UNCHANGED env

NextRoundTrip == FillCatalogue \/ SaveCatalogue \/ NextProcess \/ LoadCatalogue

SpecRoundTrip == Init /\ [][NextRoundTrip]_vars

-----------------------------------------------------------------------------
(* SpecCatalogue: a client stocks a store with products of two ids, with   *)
(* metadata of every kind (none, empty, all fields, some fields), and then *)
(* issues one query.                                                       *)

Stock ==
    /\ Filling
    /\ AddProduct(ProductIds, LiveEmbeddings(dimension), MetadataArgs,
                  MaxLiveSize)
    /\ UNCHANGED env

Browse ==
    /\ Filling
    /\ Search(LiveEmbeddings(dimension), LiveTopKs, LiveThresholds)
    /\ UNCHANGED env

NextCatalogue == Stock \/ Browse

SpecCatalogue == Init /\ [][NextCatalogue]_vars

-----------------------------------------------------------------------------
(* SpecRepeat: a client fills a store with products of two ids, at times   *)
(* several at one embedding or at one distance from the query, issues a    *)
(* query and then issues the same query again.                             *)

\* top_k of the repeated queries: one match, or the default of five.
RepeatTopKs == {1, 5}

RepeatFill ==
    /\ Filling
    /\ AddProduct(ProductIds, LiveEmbeddings(dimension), {NoMetadata},
                  MaxLiveSize)
    /\ UNCHANGED env

RepeatQuery ==
    /\ Filling
    /\ Search(Embeddings(dimension), RepeatTopKs, LiveThresholds)
    /\ UNCHANGED env

RepeatQueryAgain == SearchAgain /\ UNCHANGED env

NextRepeat == RepeatFill \/ RepeatQuery \/ RepeatQueryAgain

SpecRepeat == Init /\ [][NextRepeat]_vars

-----------------------------------------------------------------------------
(* SpecDimension: stores of different dimensions over the same files.  A   *)
(* process fills and saves its store; a later process constructs its store *)
(* with a dimension of its choice, VectorStore(dimension=d), and loads.    *)

\* The dimensions the constructor is called with.
ConstructorDimensions == {2, 3}

\* VectorStore(dimension=d) in a new process; the files stay as they are.
ConstructStore ==
    /\ dimension' \in ConstructorDimensions
    /\ index' = IndexFlatL2(dimension')
    /\ product_ids' = <<>>
    /\ product_metadata' = EmptyDict
    /\ last' = [op |-> "__init__"]
    /\ UNCHANGED <<index_file, metadata_file, saved, env>>

DimensionAdd ==
    /\ AddProduct(LiveIds, LiveEmbeddings(dimension), LiveMetadataArgs,
                  MaxLiveSize)
    /\ UNCHANGED env

DimensionSave == SaveIndex({"none"}) /\ UNCHANGED env

DimensionLoad == LoadIndex /\ UNCHANGED env

NextDimension ==
    ConstructStore \/ DimensionAdd \/ DimensionSave \/ DimensionLoad

SpecDimension == Init /\ [][NextDimension]_vars

-----------------------------------------------------------------------------
(* SpecFiles: save_index as the file system sees it.  The call is taken    *)
(* one file operation at a time; between two of them the process may die   *)
(* (a new process then constructs its store over the files as they were    *)
(* left), and a second process that shares the data directory may run      *)
(* load_index, itself one file at a time, on what is on disk as it reads.  *)

\* The places save_index passes: the directory made (the files are the
\* same until the index file is open), the index file being written, the
\* index file written, the metadata file opened and empty, the metadata
\* file being written, both written.  At each the files are as a failure
\* at that place leaves them.
SavePoints ==
    <<"makedirs", "write_index", "open_metadata", "dump_start", "dump", "none">>

\* The store state a save_index started now would write.
Snapshot ==
    [index |-> index, product_ids |-> product_ids,
     product_metadata |-> product_metadata]

\* The two files are the ones a complete save_index of state s writes.
OnDisk(s) ==
    /\ index_file = WriteIndex(s.index)
    /\ metadata_file = PickleDump(s.product_ids, s.product_metadata)

\* The process is inside save_index.
Writing == last.op = "save_index" /\ last.outcome = "running"

FilesAdd ==
    /\ ~Writing
    /\ AddProduct(LiveIds, LiveEmbeddings(dimension), LiveMetadataArgs,
                  MaxLiveSize)
    /\ UNCHANGED env

\* The first request a process serves after its startup is a search.
FilesSearch ==
    /\ last.op = "startup_event"
    /\ Search(LiveEmbeddings(dimension), LiveTopKs, LiveThresholds)
    /\ UNCHANGED env

\* save_index is entered: the directory is there, no file is touched yet.
SaveEnter ==
    /\ ~Writing
    /\ last' = [op |-> "save_index", outcome |-> "running", at |-> 1]
    /\ UNCHANGED <<mem, disk, saved, env>>

\* save_index goes on to its next place; past the last one it returns.
SaveAdvance ==
    /\ Writing
    /\ LET at == last.at + 1
           r == save_index(index, product_ids, product_metadata,
                           index_file, metadata_file, SavePoints[at])
       IN  /\ index_file' = r.index_file
           /\ metadata_file' = r.metadata_file
           /\ IF at = Len(SavePoints)
              THEN /\ last' = [op |-> "save_index", outcome |-> "ok"]
                   /\ saved' = <<Snapshot>>
              ELSE /\ last' = [last EXCEPT !.at = at]
                   /\ UNCHANGED saved
    /\ UNCHANGED <<mem, env>>

\* The process dies inside save_index.  Its memory is gone: the store is
\* the one the next process constructs.  The files stay as they are.
Crash ==
    /\ Writing
    /\ dimension' \in Dimensions
    /\ index' = IndexFlatL2(dimension')
    /\ product_ids' = <<>>
    /\ product_metadata' = EmptyDict
    /\ saved' = IF saved # NoSnapshot /\ OnDisk(saved[1])
                 THEN saved ELSE NoSnapshot
    /\ last' = [op |-> "crash", at |-> last.at]
    /\ UNCHANGED <<disk, env>>

\* The second process is inside load_index: it has read the index file
\* and has not yet opened the metadata file.
PeerReading == peer # NoPeer /\ peer[1].outcome = "running"

\* A second process constructs its store and begins load_index on the
\* files as they are now: it finds no index file and returns, fails to
\* read it, or reads it and goes on to the metadata file.
PeerReadIndex ==
    /\ ~PeerReading
    /\ peer' = IF index_file.kind = "index"
               THEN <<[outcome |-> "running", index_file |-> index_file]>>
               ELSE <<load_index(IndexFlatL2(dimension), <<>>, EmptyDict,
                                 index_file, metadata_file)>>
    /\ UNCHANGED <<mem, disk, saved, last, inflight, tie_order>>

\* The second process opens and unpickles the metadata file as it is now,
\* with the index it read before: its load_index ends.
PeerReadMetadata ==
    /\ PeerReading
    /\ peer' = <<load_index(IndexFlatL2(dimension), <<>>, EmptyDict,
                            peer[1].index_file, metadata_file)>>
    /\ UNCHANGED <<mem, disk, saved, last, inflight, tie_order>>

\* main.py startup_event, run once by a process before it serves: it calls
\* load_index and catches every exception, logging "Starting with empty
\* index"; the handler itself always returns.
startup_event ==
    /\ last.op \in {"__init__", "crash"}
    /\ LET r == load_index(index, product_ids, product_metadata,
                           index_file, metadata_file)
       IN  /\ index' = r.index
           /\ product_ids' = r.product_ids
           /\ product_metadata' = r.product_metadata
           /\ last' = [op |-> "startup_event", outcome |-> "ok",
                       load |-> r.outcome, loaded |-> r.loaded]
    /\ UNCHANGED <<dimension, disk, saved, env>>

NextFiles ==
    \/ FilesAdd
    \/ FilesSearch
    \/ SaveEnter
    \/ SaveAdvance
    \/ Crash
    \/ PeerReadIndex
    \/ PeerReadMetadata
    \/ startup_event

SpecFiles == Init /\ [][NextFiles]_vars

-----------------------------------------------------------------------------
(* SpecServe: the HTTP service under concurrent requests.  The handlers    *)
(* visual_search and index_product are coroutines on one event loop: each  *)
(* is suspended once, at await image.read(), and from there runs its       *)
(* feature extraction and its store call without another await.  A request *)
(* is in flight from the moment it is accepted until its handler returns.  *)
(* add_product is taken line by line, so that the state between its        *)
(* append to the index and its append to the id list is a state of the     *)
(* model; whether another handler can run in that state is the event       *)
(* loop's decision.                                                        *)

\* The most requests in flight at once.
MaxInflight == 2

\* The features image_processor extracts from the image of a product.
ImageFeatures(product_id, d) ==
    [i \in 1..d |-> IF i = (IF product_id = "A" THEN 1 ELSE d) THEN 1 ELSE 0]

InFlight ==
    inflight.search + inflight.index + inflight.batch + Len(inflight.adding)

\* A variant in which every handler runs on a thread of its own.
LoopFreeThreaded == TRUE

\* The event loop can resume a coroutine: no handler is inside the
\* synchronous part that follows its await.
LoopFree == inflight.adding = <<>>

\* A request arrives and its handler runs up to await image.read().
AcceptSearch ==
    /\ LoopFree
    /\ InFlight < MaxInflight
    /\ inflight' = [inflight EXCEPT !.search = @ + 1]
    /\ UNCHANGED <<mem, disk, saved, last, peer, tie_order>>

AcceptIndex ==
    /\ LoopFree
    /\ InFlight < MaxInflight
    /\ inflight' = [inflight EXCEPT !.index = @ + 1]
    /\ UNCHANGED <<mem, disk, saved, last, peer, tie_order>>

\* visual_search is resumed: features, then vector_store.search, then the
\* response.
visual_search ==
    /\ LoopFree
    /\ inflight.search > 0
    /\ Search(LiveEmbeddings(dimension), LiveTopKs, LiveThresholds)
    /\ inflight' = [inflight EXCEPT !.search = @ - 1]
    /\ UNCHANGED <<peer, tie_order>>

\* index_product is resumed: features, then add_product(product_id,
\* features) as far as self.index.add.
index_product_add ==
    /\ LoopFree
    /\ inflight.index > 0
    /\ ntotal(index) < MaxLiveSize
    /\ \E product_id \in ProductIds :
           LET features == ImageFeatures(product_id, dimension)
           IN  /\ DimensionOk(dimension, features)
               /\ index' = IndexAdd(index, features)
               /\ inflight' = [inflight EXCEPT
                                 !.index = @ - 1,
                                 !.adding = Append(@, [product_id |-> product_id,
                                                       features |-> features])]
    /\ UNCHANGED <<dimension, product_ids, product_metadata, disk, saved,
                   last, peer, tie_order>>

\* add_product goes on: self.product_ids.append, no metadata given, and
\* the handler returns its response.
index_product_append ==
    \E i \in 1..Len(inflight.adding) :
        LET call == inflight.adding[i]
        IN  /\ product_ids' = Append(product_ids, call.product_id)
            /\ product_metadata' =
                   StoreMetadata(product_metadata, call.product_id, NoMetadata)
            /\ inflight' = [inflight EXCEPT
                              !.adding = SubSeq(@, 1, i - 1)
                                           \o SubSeq(@, i + 1, Len(@))]
            /\ last' = [op |-> "add_product", product_id |-> call.product_id,
                        features |-> call.features, metadata |-> NoMetadata,
                        outcome |-> "ok"]
            /\ UNCHANGED <<dimension, index, disk, saved, peer, tie_order>>

NextServe ==
    \/ AcceptSearch
    \/ AcceptIndex
    \/ visual_search
    \/ index_product_add
    \/ index_product_append

SpecServe == Init /\ [][NextServe]_vars

-----------------------------------------------------------------------------
(* SpecBatch: the service under index_product and batch requests.  The     *)
(* batch handler has no await at all: it calls create_sample_index, which  *)
(* adds the sample products and then calls save_index.                     *)

\* The sample products of create_sample_index (the model keeps the first
\* of the nine), each with name, price and image_url.
SampleProducts == <<[id |-> "S", metadata |-> Meta1]>>

\* add_product for the sample products from the i-th on, features[i]
\* being the random unit vector drawn for the i-th: the store they leave;
\* the loop ends at the first add_product that raises.
RECURSIVE AddSamples(_, _, _, _)
AddSamples(dim, store, features, i) ==
    IF i > Len(SampleProducts)
    THEN [outcome |-> "ok", index |-> store.index,
          product_ids |-> store.product_ids,
          product_metadata |-> store.product_metadata]
    ELSE LET r == add_product(dim, store.index, store.product_ids,
                              store.product_metadata, SampleProducts[i].id,
                              features[i], <<SampleProducts[i].metadata>>)
         IN  IF r.outcome # "ok" THEN r
             ELSE AddSamples(dim, r, features, i + 1)

\* create_sample_index: the sample products are added and then the store
\* is saved; when an add_product raises, save_index is not reached.
create_sample_index(dim, store, ifile, mfile, features, fault) ==
    LET a == AddSamples(dim, store, features, 1)
        w == save_index(a.index, a.product_ids, a.product_metadata,
                        ifile, mfile, fault)
    IN  IF a.outcome # "ok"
        THEN [outcome |-> a.outcome, saving |-> FALSE, index |-> a.index,
              product_ids |-> a.product_ids,
              product_metadata |-> a.product_metadata,
              index_file |-> ifile, metadata_file |-> mfile]
        ELSE [outcome |-> w.outcome, saving |-> TRUE, index |-> a.index,
              product_ids |-> a.product_ids,
              product_metadata |-> a.product_metadata,
              index_file |-> w.index_file, metadata_file |-> w.metadata_file]

AcceptBatch ==
    /\ LoopFree
    /\ InFlight < MaxInflight
    /\ inflight' = [inflight EXCEPT !.batch = @ + 1]
    /\ UNCHANGED <<mem, disk, saved, last, peer, tie_order>>

\* batch_index_products runs create_sample_index on the store as it finds
\* it; it answers with the count, or with status 500 when the call raised.
batch_index_products ==
    /\ LoopFree
    /\ inflight.batch > 0
    /\ ntotal(index) + Len(SampleProducts) <= MaxLiveSize
    /\ \E features \in [1..Len(SampleProducts) -> LiveEmbeddings(dimension)],
          fault \in PossibleFaults(index_file, metadata_file) :
           LET r == create_sample_index(dimension, Snapshot, index_file,
                                        metadata_file, features, fault)
           IN  /\ index' = r.index
               /\ product_ids' = r.product_ids
               /\ product_metadata' = r.product_metadata
               /\ index_file' = r.index_file
               /\ metadata_file' = r.metadata_file
               /\ saved' = IF r.saving /\ fault = "none"
                            THEN <<[index |-> r.index,
                                    product_ids |-> r.product_ids,
                                    product_metadata |-> r.product_metadata]>>
                            ELSE IF ~r.saving \/ fault \in TouchesNoFile
                            THEN saved
                            ELSE NoSnapshot
               /\ last' = IF r.outcome = "ok"
                          THEN [op |-> "create_sample_index", outcome |-> "ok",
                                indexed_count |-> Len(SampleProducts)]
                          ELSE [op |-> "create_sample_index",
                                outcome |-> r.outcome]
    /\ inflight' = [inflight EXCEPT !.batch = @ - 1]
    /\ UNCHANGED <<dimension, peer, tie_order>>

NextBatch ==
    \/ AcceptIndex
    \/ AcceptBatch
    \/ index_product_add
    \/ index_product_append
    \/ batch_index_products

SpecBatch == Init /\ [][NextBatch]_vars

-----------------------------------------------------------------------------
(* Properties *)

\* A step that is a call of add_product, and one that is a call of search.
AddStep == last'.op = "add_product" /\ vars' # vars
SuccessfulAdd == AddStep /\ last'.outcome = "ok"

\* C1: in every reachable state the id list has exactly as many entries as
\* the vector index, so that position i of one is position i of the other.
C1_ParallelLengths == Len(product_ids) = ntotal(index)

\* C2: add_product with an embedding whose length is not the store's
\* dimension raises the dimension error and changes nothing: the size, the
\* vector index, the id list and the metadata map are as before the call.
C2_DimensionGuard ==
    [][(AddStep /\ Len(last'.features) # dimension)
         => /\ last'.outcome = "ValueError"
            /\ get_index_size(index') = get_index_size(index)
            /\ index' = index
            /\ product_ids' = product_ids
            /\ product_metadata' = product_metadata]_vars

\* C2 witness: a wrong-length add was refused on a store that holds entries.
C2_Witness ==
    /\ last.op = "add_product"
    /\ Len(last.features) # dimension
    /\ last.outcome = "ValueError"
    /\ get_index_size(index) > 0
    /\ DOMAIN product_metadata # {}

\* C3: a successful add_product on a store of size N gives size N + 1, with
\* the embedding at position N of the vector index and the product id at
\* the same position N of the id list, positions 0..N-1 of both unchanged.
C3_AppendAtSamePosition ==
    [][SuccessfulAdd
         => LET N == get_index_size(index)
            IN  /\ get_index_size(index') = N + 1
                /\ index'.xb[N + 1] = last'.features
                /\ Len(product_ids') = N + 1
                /\ product_ids'[N + 1] = last'.product_id
                /\ \A i \in 1..N : index'.xb[i] = index.xb[i]
                /\ \A i \in 1..N : product_ids'[i] = product_ids[i]]_vars

\* The last call was a load_index that installed a snapshot in a fresh store,
\* and the snapshot on disk is the one a successful save_index wrote.
LoadedSnapshot ==
    /\ last.op = "load_index"
    /\ last.outcome = "ok"
    /\ last.loaded
    /\ last.fresh
    /\ saved # NoSnapshot

\* The store r has the size of the store s, the same embedding and the
\* same id at every position, and the same metadata for every product id.
SameStore(r, s) ==
    /\ get_index_size(r.index) = get_index_size(s.index)
    /\ \A i \in 1..get_index_size(s.index) : r.index.xb[i] = s.index.xb[i]
    /\ Len(r.product_ids) = Len(s.product_ids)
    /\ \A i \in 1..Len(s.product_ids) : r.product_ids[i] = s.product_ids[i]
    /\ DOMAIN r.product_metadata = DOMAIN s.product_metadata
    /\ \A p \in DOMAIN s.product_metadata :
           r.product_metadata[p] = s.product_metadata[p]

\* The last call was a save_index that returned normally.
SaveReturned == last.op = "save_index" /\ last.outcome = "ok"

\* What load_index leaves in a fresh store, on the files as they are.
FreshLoad ==
    load_index(IndexFlatL2(dimension), <<>>, EmptyDict,
               index_file, metadata_file)

\* C4: round trip.  After save_index of a store filled by add_product calls
\* and load_index into a fresh store, the fresh store has the same size, the
\* same embedding and the same id at every position, and the same metadata
\* for every product id: this of the store a load_index has installed, and
\* of the load_index that follows any save_index that returned.
C4_RoundTrip ==
    /\ LoadedSnapshot => SameStore(Snapshot, saved[1])
    /\ SaveReturned
         => /\ FreshLoad.outcome = "ok"
            /\ FreshLoad.loaded
            /\ SameStore(FreshLoad, Snapshot)

\* C4 witness: a full store with two different embeddings in its first two
\* positions, two ids and different metadata for them came back from disk.
C4_Witness ==
    /\ LoadedSnapshot
    /\ get_index_size(index) = MaxSize
    /\ index.xb[1] # index.xb[2]
    /\ product_ids[1] # product_ids[2]
    /\ DOMAIN product_metadata = ProductIds
    /\ product_metadata["A"] # product_metadata["B"]

\* The last call was a search that reached the index: the store is not
\* empty and the query has the index's dimension.
Searched ==
    /\ last.op = "search"
    /\ get_index_size(index) > 0
    /\ Len(last.query_features) = index.d

\* The last call was a search that returned its matches.
Returned == last.op = "search" /\ last.outcome = "ok"

\* The distance from the last query to the embedding at 0-based position p.
DistanceAt(p) == L2sqr(last.query_features, index.xb[p + 1])

\* The 0-based positions among the candidates of the last search.
HitPositions == {last.hits[i].idx : i \in 1..Len(last.hits)}

AboveThreshold(h) == ExpNeg(h.distance) >= last.threshold
Survivors == SelectSeq(last.hits, AboveThreshold)

\* C6: threshold filter.  The matches of a search are the candidates whose
\* similarity is greater than or equal to the threshold, all of them and no
\* others, in the order the candidates were in.
C6_ThresholdFilter ==
    (Searched /\ Returned)
      => /\ Len(last.results) = Len(Survivors)
         /\ \A i \in 1..Len(Survivors) :
                /\ last.results[i].product_id = product_ids[Survivors[i].idx + 1]
                /\ last.results[i].similarity_score = ExpNeg(Survivors[i].distance)

\* C6 witness: of three candidates the first two are kept, each with a
\* similarity equal to the threshold (two embeddings identical to the
\* query, threshold 1.0), and the third is dropped.
C6_Witness ==
    /\ Searched /\ Returned
    /\ Len(last.hits) = 3
    /\ Len(last.results) = 2
    /\ last.results[1].similarity_score = last.threshold
    /\ last.results[2].similarity_score = last.threshold
    /\ last.threshold > 0
    /\ ExpNeg(last.hits[3].distance) < last.threshold

\* C7: the matches of a search are in non-increasing similarity order.
C7_NonIncreasingSimilarity ==
    last.op = "search"
      => \A i, j \in 1..Len(last.results) :
            i < j => last.results[i].similarity_score
                       >= last.results[j].similarity_score

\* C7 witness: three matches, the similarity falling from each to the next,
\* found at positions that are not in that order in the store.
C7_Witness ==
    /\ Returned
    /\ Len(last.results) = 3
    /\ last.results[1].similarity_score > last.results[2].similarity_score
    /\ last.results[2].similarity_score > last.results[3].similarity_score
    /\ last.hits[1].idx > last.hits[2].idx

\* C8: a search with top_k >= 1 returns at most min(top_k, size()) matches.
C8_CountWithinTopK ==
    (last.op = "search" /\ last.top_k >= 1)
      => /\ Len(last.results) >= 0
         /\ Len(last.results) <= Min(last.top_k, get_index_size(index))

\* C8 witness: the store holds more entries than top_k, every one of them
\* passes the threshold, and the search returned exactly top_k matches.
C8_Witness ==
    /\ Returned
    /\ last.top_k = 2
    /\ get_index_size(index) = 3
    /\ last.threshold = 0
    /\ Len(last.results) = 2

\* How many matches the last search's query and top_k give at threshold t.
CountAt(t) ==
    Len(search(index, product_ids, product_metadata,
               last.query_features, last.top_k, t).results)

\* C9: threshold monotonicity.  For the store, query and top_k of a search,
\* no threshold above the one used gives more matches than it gave, and no
\* threshold below it gives fewer.
C9_ThresholdMonotone ==
    last.op = "search"
      => \A t \in Thresholds \ {last.threshold} :
            IF t > last.threshold
            THEN CountAt(t) <= Len(last.results)
            ELSE CountAt(t) >= Len(last.results)

\* C9 witness: a search that returned two matches where a higher threshold
\* gives one and a lower threshold three.
C9_Witness ==
    /\ Returned
    /\ Len(last.results) = 2
    /\ \E t \in Thresholds : t > last.threshold /\ CountAt(t) = 1
    /\ \E t \in Thresholds : t < last.threshold /\ CountAt(t) = 3

\* C10: search on a store of size 0 returns the empty list and raises
\* nothing, whatever the query, top_k and threshold.
C10_EmptyIndexSearch ==
    (last.op = "search" /\ get_index_size(index) = 0)
      => /\ last.outcome = "ok"
         /\ last.results = <<>>

\* C10 witness: the empty store was searched with a query of the wrong
\* length, top_k above 1 and threshold 1.0.
C10_Witness ==
    /\ last.op = "search"
    /\ get_index_size(index) = 0
    /\ Len(last.query_features) # dimension
    /\ last.top_k > 1
    /\ last.threshold = 2000000
    /\ last.outcome = "ok"

\* exp(-sqrt(s)) in half-millionths: the score the Euclidean distance gives
\* for a squared distance s (sqrt(2) ~ 1.414 gives 0.2431167...).
ExpNegRoot(s) ==
    CASE s = 0 -> 2000000
      [] s = 1 -> 735759
      [] s = 2 -> 486233
      [] s = 3 -> 353843
      [] s = 4 -> 270671
      [] OTHER -> 0

\* C11: the distance a search ranks by and scores is the Euclidean distance
\* between the query and the stored embedding (its square is the sum of the
\* squared differences), and the score is exp(-distance): two orthogonal
\* unit vectors are sqrt(2) apart and score 0.243.
C11_EuclideanDistanceScore ==
    (Searched /\ Returned)
      => \A i \in 1..Len(Survivors) :
             LET s == DistanceAt(Survivors[i].idx)
             IN  s <= 4
                   => /\ Survivors[i].distance * Survivors[i].distance = s
                      /\ last.results[i].similarity_score = ExpNegRoot(s)

\* The similarity score and the distance of the i-th match of a returned
\* search (the matches are the surviving candidates, in order).
ScoreOf(i) == last.results[i].similarity_score
DistanceOf(i) == DistanceAt(Survivors[i].idx)

\* What C12 says of every match but for its lower bound: the score is at
\* most 1, an embedding identical to the query scores exactly 1, and a
\* match at a larger distance never has a larger score.
ScoreShape(i) ==
    /\ ScoreOf(i) <= 2000000
    /\ index.xb[Survivors[i].idx + 1] = last.query_features
         => ScoreOf(i) = 2000000
    /\ \A j \in 1..Len(Survivors) :
           DistanceOf(j) > DistanceOf(i) => ScoreOf(j) <= ScoreOf(i)

\* C12 as stated: every similarity_score a search returns lies in (0, 1].
C12_ScoreInHalfOpenUnit ==
    (Searched /\ Returned)
      => \A i \in 1..Len(Survivors) : ScoreOf(i) > 0 /\ ScoreShape(i)

\* C12 amended: every similarity_score a search returns lies in [0, 1],
\* the bound SimilarProduct validates, and is positive whenever the
\* distance is below the float32 underflow point of exp; an identical
\* embedding scores exactly 1 and a larger distance never scores higher.
C12_ScoreInUnitInterval ==
    (Searched /\ Returned)
      => \A i \in 1..Len(Survivors) :
             /\ ScoreOf(i) >= 0
             /\ DistanceOf(i) < Float32ExpUnderflow => ScoreOf(i) > 0
             /\ ScoreShape(i)

\* C12 witness: a search returned an embedding identical to the query with
\* score 1 and a second, farther one with a smaller positive score.
C12_Witness ==
    /\ Searched /\ Returned
    /\ Len(last.results) >= 2
    /\ index.xb[Survivors[1].idx + 1] = last.query_features
    /\ ScoreOf(1) = 2000000
    /\ DistanceOf(2) > DistanceOf(1)
    /\ ScoreOf(2) > 0 /\ ScoreOf(2) < ScoreOf(1)

\* A step that is a call of search.
SearchStep == last'.op = "search" /\ vars' # vars

\* C13: search on a non-empty store with a query whose length is not the
\* store's dimension raises the index's dimension error to the caller,
\* returns no matches, and leaves the store and its files as they were.
C13_QueryDimensionMismatch ==
    [][(SearchStep /\ get_index_size(index) > 0
          /\ Len(last'.query_features) # dimension)
         => /\ last'.outcome = "AssertionError"
            /\ last'.results = <<>>
            /\ index' = index
            /\ product_ids' = product_ids
            /\ product_metadata' = product_metadata
            /\ disk' = disk]_vars

\* C13 witness: a store of two entries refused a query that is one
\* component too long.
C13_Witness ==
    /\ last.op = "search"
    /\ get_index_size(index) = 2
    /\ Len(product_ids) = 2
    /\ Len(last.query_features) = dimension + 1
    /\ last.outcome = "AssertionError"
    /\ last.results = <<>>

\* C14: load_index on a fresh store when no snapshot is on disk raises no
\* error and leaves the store empty: size 0, no ids, no metadata.
C14_LoadWithoutSnapshot ==
    (/\ last.op = "load_index"
     /\ last.fresh
     /\ index_file = NoFile
     /\ metadata_file = NoFile)
      => /\ last.outcome = "ok"
         /\ get_index_size(index) = 0
         /\ IsFresh(index, product_ids, product_metadata)

\* C14 witness: a fresh store ran load_index with neither file on disk and
\* the call returned.
C14_Witness ==
    /\ last.op = "load_index"
    /\ last.fresh
    /\ ~last.loaded
    /\ index_file = NoFile
    /\ metadata_file = NoFile
    /\ last.outcome = "ok"
    /\ get_index_size(index) = 0

\* A step that is a call of load_index.
LoadStep == last'.op = "load_index" /\ vars' # vars

\* The files hold a readable index and a readable id list whose counts
\* differ.
MismatchedPair ==
    /\ index_file.kind = "index"
    /\ metadata_file.kind = "pickle"
    /\ index_file.ntotal # Len(metadata_file.product_ids)

\* C15: load_index of a snapshot whose index holds a number of entries
\* other than the length of its id list fails with an error, and the store
\* never takes the mismatched pair as its state.
C15_MismatchedSnapshotRejected ==
    [][(LoadStep /\ MismatchedPair)
         => /\ last'.outcome # "ok"
            /\ ~(/\ index' = ReadIndex(index_file)
                 /\ product_ids' = metadata_file.product_ids)]_vars

\* C16: a load_index that fails leaves the vector index, the id list and
\* the metadata map exactly as they were before the call.
C16_FailedLoadChangesNothing ==
    [][(LoadStep /\ last'.outcome # "ok")
         => /\ index' = index
            /\ product_ids' = product_ids
            /\ product_metadata' = product_metadata]_vars

\* A step in which the process dies inside save_index.
CrashStep == last'.op = "crash" /\ vars' # vars

\* C17: when the process dies at any place inside save_index and a complete
\* snapshot was on disk when the call began, the two files afterwards are
\* still that snapshot.
C17_CrashKeepsPreviousSnapshot ==
    [][(CrashStep /\ saved # NoSnapshot)
         => /\ index_file' = WriteIndex(saved[1].index)
            /\ metadata_file' = PickleDump(saved[1].product_ids,
                                           saved[1].product_metadata)]_vars

\* A step in which the load_index of a second process ends, and what it
\* got.
PeerLoadStep == peer' # peer /\ peer'[1].outcome # "running"
PeerGot(s) ==
    /\ peer'[1].outcome = "ok"
    /\ peer'[1].loaded
    /\ peer'[1].index = s.index
    /\ peer'[1].product_ids = s.product_ids
    /\ peer'[1].product_metadata = s.product_metadata

\* C18: a load_index that runs while a save_index is under way gets the
\* complete snapshot that was on disk before the save (finding none if
\* there was none) or the complete snapshot the save is writing, never a
\* part-written file and never the index of one with the metadata of the
\* other.
C18_ConcurrentLoadSeesWholeSnapshot ==
    [][(PeerLoadStep /\ Writing)
         => \/ saved # NoSnapshot /\ PeerGot(saved[1])
            \/ PeerGot(Snapshot)
            \/ /\ saved = NoSnapshot
               /\ peer'[1].outcome = "ok"
               /\ ~peer'[1].loaded]_vars

\* A step that is a call of save_index, and one in which the call met an
\* I/O failure: it raised, or it left files that are not the two files of
\* the store it was to save.
SaveStep == last'.op = "save_index" /\ vars' # vars
FailedSaveStep ==
    /\ SaveStep
    /\ last'.outcome # "running"
    /\ \/ last'.outcome # "ok"
       \/ index_file' # WriteIndex(index)
       \/ metadata_file' # PickleDump(product_ids, product_metadata)

\* C19: a save_index that meets an I/O failure raises the error to its
\* caller and leaves the store in memory as it was: the size, the
\* embeddings, the ids and the metadata are unchanged, so that an
\* add_product or a search that follows does what it would have done had
\* save_index not been called (both read nothing but these fields).
C19_FailedSaveKeepsMemory ==
    [][FailedSaveStep
            => /\ last'.outcome \in {"OSError", "RuntimeError"}
               /\ get_index_size(index') = get_index_size(index)
               /\ index' = index
               /\ product_ids' = product_ids
               /\ product_metadata' = product_metadata
               /\ dimension' = dimension
               /\ LET q == ImageFeatures("A", dimension)
                  IN  /\ search(index', product_ids', product_metadata',
                                q, 5, 0)
                           = search(index, product_ids, product_metadata,
                                    q, 5, 0)
                      /\ add_product(dimension', index', product_ids',
                                     product_metadata', "A", q, <<Meta1>>)
                           = add_product(dimension, index, product_ids,
                                         product_metadata, "A", q, <<Meta1>>)]_vars

\* C20: a search that runs while index_product requests are in flight
\* never finds the vector index one entry ahead of the id list: the two
\* have the same length, the search does not fail on a position without an
\* id, and every position it got from the index holds the embedding of the
\* product whose id is at that position.
C20_SearchSeesWholeAdds ==
    [][SearchStep
         => /\ ntotal(index) = Len(product_ids)
            /\ last'.outcome = "ok"
            /\ \A i \in 1..Len(last'.hits) :
                   LET p == last'.hits[i].idx + 1
                   IN  /\ p <= Len(product_ids)
                       /\ index.xb[p] = ImageFeatures(product_ids[p],
                                                      dimension)]_vars

\* C20 witness: a search returned two products, each with its own id,
\* while an index_product request was in flight.
C20_Witness ==
    /\ last.op = "search"
    /\ last.outcome = "ok"
    /\ inflight.index > 0
    /\ Len(last.results) = 2
    /\ last.results[1].product_id # last.results[2].product_id

\* C21: add_product calls of concurrent requests do not mix.  Each call
\* that completes lengthens the id list by one and brings it level with
\* the vector index (two calls grow the size by 2), and every id then sits
\* at the position of the embedding of its own product, never at that of
\* the other call's.
C21_ConcurrentAddsStayPaired ==
    [][product_ids' # product_ids
         => /\ Len(product_ids') = Len(product_ids) + 1
            /\ ntotal(index') = Len(product_ids')
            /\ ntotal(index') = Len(product_ids) + 1
            /\ \A p \in 1..Len(product_ids') :
                   index'.xb[p] = ImageFeatures(product_ids'[p],
                                                dimension)]_vars

\* C21 witness: two add_product calls of different products have completed,
\* each while another index_product request was in flight, and the store
\* holds the two ids at the positions of their embeddings.
C21_Witness ==
    /\ last.op = "add_product"
    /\ last.outcome = "ok"
    /\ inflight.index = 1
    /\ Len(product_ids) = 2
    /\ get_index_size(index) = 2
    /\ product_ids[1] # product_ids[2]
    /\ index.xb[1] = ImageFeatures(product_ids[1], dimension)
    /\ index.xb[2] = ImageFeatures(product_ids[2], dimension)

\* C22: at startup the service tries load_index.  With no index file it
\* starts empty without error; when the load succeeds the store is what the
\* files hold; and when the load fails for any other reason the startup
\* signals a fatal error instead of going on to serve.
C22_StartupLifecycle ==
    last.op = "startup_event"
      => /\ index_file = NoFile
              => last.outcome = "ok"
                   /\ IsFresh(index, product_ids, product_metadata)
         /\ (last.load = "ok" /\ last.loaded)
              => /\ last.outcome = "ok"
                 /\ index = ReadIndex(index_file)
                 /\ product_ids = PickleLoad(metadata_file).product_ids
                 /\ product_metadata
                      = PickleLoad(metadata_file).product_metadata
         /\ last.load # "ok" => last.outcome = "fatal"

\* The id of the add_product call of this step is already in the store.
DuplicateAdd ==
    /\ SuccessfulAdd
    /\ \E p \in 1..Len(product_ids) : product_ids[p] = last'.product_id

\* C23: add_product with a product id that is already in the store is
\* accepted and makes a second entry at a new position: the size grows by
\* one and the earlier entries keep their positions and embeddings; a
\* search wide enough to take every entry returns one match per position,
\* so both entries of the id are returned.
C23_DuplicateIdSecondEntry ==
    [][/\ DuplicateAdd
            => LET n == Len(product_ids)
               IN  /\ get_index_size(index') = get_index_size(index) + 1
                   /\ Len(product_ids') = n + 1
                   /\ product_ids'[n + 1] = last'.product_id
                   /\ index'.xb[n + 1] = last'.features
                   /\ SubSeq(product_ids', 1, n) = product_ids
                   /\ SubSeq(index'.xb, 1, n) = index.xb
       /\ (SearchStep /\ last'.threshold = 0
             /\ last'.top_k >= get_index_size(index))
            => /\ last'.outcome = "ok"
               /\ Len(last'.results) = get_index_size(index)
               /\ \A p \in 1..Len(product_ids) :
                      \E i \in 1..Len(last'.results) :
                          /\ last'.hits[i].idx + 1 = p
                          /\ last'.results[i].product_id
                               = product_ids[p]]_vars

\* C23 witness: one product id was added twice with different embeddings
\* and a search returned both entries, with different scores.
C23_Witness ==
    /\ Returned
    /\ Len(product_ids) = 2
    /\ product_ids[1] = product_ids[2]
    /\ index.xb[1] # index.xb[2]
    /\ Len(last.results) = 2
    /\ last.results[1].product_id = last.results[2].product_id
    /\ last.results[1].similarity_score # last.results[2].similarity_score

\* C24: the dimension add_product checks against is the dimension of the
\* vector index, and every stored embedding has that length, in every
\* state, those after load_index included.
C24_DimensionFixed ==
    /\ dimension = index.d
    /\ \A p \in 1..ntotal(index) : Len(index.xb[p]) = dimension

\* The last call was a search that repeated the call before it.
Repeated == last.op = "search" /\ "before" \in DOMAIN last

StoredField(pid, k) ==
    IF pid \in DOMAIN product_metadata
    THEN IF k \in DOMAIN product_metadata[pid]
         THEN product_metadata[pid][k] ELSE None
    ELSE None

\* C26: each match of a search carries the product id recorded at the
\* position of the matched embedding and the name, image URL and price
\* stored for that id; with no metadata stored for the id the match is
\* returned all the same, with the three fields None.
C26_MatchCarriesIdAndMetadata ==
    (Searched /\ Returned)
      => /\ Len(last.results) = Len(Survivors)
         /\ \A i \in 1..Len(Survivors) :
                LET pid == product_ids[Survivors[i].idx + 1]
                    m == last.results[i]
                IN  /\ m.product_id = pid
                    /\ m.product_name = StoredField(pid, "name")
                    /\ m.product_image_url = StoredField(pid, "image_url")
                    /\ m.price = StoredField(pid, "price")

\* C26 witness: a search returned a product with all three fields stored
\* and, after it, a product of another id with no metadata, its fields None.
C26_Witness ==
    /\ Searched /\ Returned
    /\ Len(last.results) = 2
    /\ last.results[1].product_id # last.results[2].product_id
    /\ last.results[1].product_name = "n1"
    /\ last.results[1].price = "p1"
    /\ last.results[2].product_id \notin DOMAIN product_metadata
    /\ last.results[2].product_name = None
    /\ last.results[2].product_image_url = None
    /\ last.results[2].price = None

\* A successful add_product whose metadata argument is None or empty.
BareAdd == SuccessfulAdd /\ ~Truthy(last'.metadata)

\* C27 as stated: add_product with no or empty metadata records the id at
\* its position, leaves the metadata map unchanged, and a later lookup for
\* the id yields empty fields.
C27_BareAddLooksUpEmpty ==
    [][BareAdd
         => /\ product_ids' = Append(product_ids, last'.product_id)
            /\ product_metadata' = product_metadata
            /\ DictGet(product_metadata', last'.product_id, EmptyDict)
                 = EmptyDict]_vars

\* C27 amended: add_product with no or empty metadata records the id at
\* its position and leaves the metadata map unchanged; a later lookup for
\* the id yields what it yielded before the call, which is empty fields
\* unless an earlier add_product stored metadata under the same id.
C27_BareAddKeepsMetadataMap ==
    [][BareAdd
         => LET pid == last'.product_id
            IN  /\ product_ids' = Append(product_ids, pid)
                /\ product_metadata' = product_metadata
                /\ DictGet(product_metadata', pid, EmptyDict)
                     = DictGet(product_metadata, pid, EmptyDict)
                /\ pid \notin DOMAIN product_metadata
                     => DictGet(product_metadata', pid, EmptyDict)
                          = EmptyDict]_vars

\* C27 witness: after a product stored with metadata, a product of another
\* id was added with an empty metadata dict; its id is the last of the
\* list and the metadata map has no entry for it.
C27_Witness ==
    /\ last.op = "add_product"
    /\ last.outcome = "ok"
    /\ last.metadata = <<EmptyDict>>
    /\ Len(product_ids) = 2
    /\ product_ids[2] = last.product_id
    /\ last.product_id \notin DOMAIN product_metadata
    /\ product_ids[1] \in DOMAIN product_metadata

\* A step in which batch_index_products runs, and returns its count.
BatchSaved == inflight'.batch < inflight.batch /\ last'.outcome = "ok"

\* C28: the snapshot a completed save_index writes while add_product
\* requests are in flight is consistent: the index file and the metadata
\* file are written from one store state, in which the index has as many
\* entries as the id list, so the two written counts are equal.  The
\* metadata file is the one of that state, and the index file is the one
\* of that state, whole or cut at its close.
C28_SaveWritesOneState ==
    [][BatchSaved
         => /\ ntotal(index') = Len(product_ids')
            /\ metadata_file' = PickleDump(product_ids', product_metadata')
            /\ index_file' \in {WriteIndex(index'), Torn}
            /\ index_file'.kind = "index"
                 => /\ index_file'.ntotal = Len(metadata_file'.product_ids)
                    /\ saved' = <<Snapshot'>>]_vars

\* C28 witness: create_sample_index saved a store of two entries, one of
\* them added by an index_product request, while another index_product
\* request was in flight.
C28_Witness ==
    /\ last.op = "create_sample_index"
    /\ last.outcome = "ok"
    /\ inflight.index > 0
    /\ index_file.kind = "index"
    /\ index_file.ntotal = 2
    /\ Len(metadata_file.product_ids) = 2
    /\ metadata_file.product_ids[1] \in ProductIds

\* The store is the one the files hold, all three parts of it.
WholeLoaded ==
    /\ index_file.kind = "index"
    /\ metadata_file.kind = "pickle"
    /\ index = ReadIndex(index_file)
    /\ product_ids = PickleLoad(metadata_file).product_ids
    /\ product_metadata = PickleLoad(metadata_file).product_metadata

\* C29: load_index replaces the vector index, the id list and the metadata
\* map as one step: the search or add_product that runs next to the load
\* of startup_event finds either the store as it was constructed or the
\* store the files hold, never the loaded index with the id list or the
\* metadata map from before the load.
C29_LoadSwapsAsOneStep ==
    [][(last.op = "startup_event" /\ (SearchStep \/ AddStep))
         => \/ IsFresh(index, product_ids, product_metadata)
            \/ WholeLoaded]_vars

\* C30: add_product and search leave the two snapshot files as they are;
\* the files change only in a save_index call; and a load_index of the
\* last complete snapshot installs the store as it was at that save, so
\* that entries added since are not in it.
C30_PersistenceIsExplicit ==
    [][/\ (AddStep \/ SearchStep) => disk' = disk
       /\ disk' # disk => last'.op = "save_index"
       /\ (LoadStep /\ last'.loaded /\ saved # NoSnapshot)
            => /\ index' = saved[1].index
               /\ product_ids' = saved[1].product_ids
               /\ product_metadata' = saved[1].product_metadata]_vars

\* C30 witness: one entry was saved and a second one added since; the
\* files still hold the one-entry snapshot, and a load_index now would
\* install a store without the second entry.
C30_Witness ==
    /\ last.op = "add_product"
    /\ last.outcome = "ok"
    /\ Len(product_ids) = 2
    /\ saved # NoSnapshot
    /\ OnDisk(saved[1])
    /\ Len(saved[1].product_ids) = 1
    /\ load_index(index, product_ids, product_metadata,
                  index_file, metadata_file).product_ids = <<product_ids[1]>>

\* The step keeps every stored entry where it is: the size does not go
\* down, and each position of the index and of the id list holds the
\* embedding and the id it held before.
KeepsPositions ==
    /\ get_index_size(index') >= get_index_size(index)
    /\ Len(product_ids') >= Len(product_ids)
    /\ \A i \in 1..ntotal(index) : index'.xb[i] = index.xb[i]
    /\ \A i \in 1..Len(product_ids) : product_ids'[i] = product_ids[i]

\* C31 as stated: whatever operation a store performs (add_product,
\* search, save_index, load_index), its size never decreases and no
\* occupied position changes its embedding or its id.
C31_AppendOnlyAcrossAllOperations ==
    [][last'.op # "__init__" => KeepsPositions]_vars

\* C31: add_product, search and save_index never decrease the size and
\* never change the embedding or the id at an occupied position; only
\* load_index, which installs what the files hold, can.
C31_AppendOnlyExceptLoad ==
    [][last'.op \notin {"__init__", "load_index"} => KeepsPositions]_vars

\* C31 witness: a store that was saved with one entry has had a second one
\* added and has been searched; both entries are in place.
C31_Witness ==
    /\ last.op = "search"
    /\ last.outcome = "ok"
    /\ Len(product_ids) = 2
    /\ ntotal(index) = 2
    /\ saved # NoSnapshot
    /\ Len(saved[1].product_ids) = 1
    /\ saved[1].index.xb[1] = index.xb[1]
    /\ index.xb[2] # index.xb[1]

\* C32: search is read-only: whatever its arguments, and whether it
\* returns matches, returns the empty list or raises, the vector index,
\* the id list, the metadata map and the two snapshot files are afterwards
\* what they were before the call.
C32_SearchIsReadOnly ==
    [][SearchStep
         => /\ index' = index
            /\ product_ids' = product_ids
            /\ product_metadata' = product_metadata
            /\ dimension' = dimension
            /\ index_file' = index_file
            /\ metadata_file' = metadata_file]_vars

\* C32 witness: a search raised the index's dimension error on a store of
\* two entries whose snapshot is on disk.
C32_Witness ==
    /\ last.op = "search"
    /\ last.outcome = "AssertionError"
    /\ ntotal(index) = 2
    /\ Len(product_ids) = 2
    /\ DOMAIN product_metadata # {}
    /\ saved # NoSnapshot
    /\ OnDisk(Snapshot)

\* C33: a load_index that succeeds in reading a snapshot replaces the
\* store instead of merging into it: afterwards the vector index, the id
\* list and the metadata map are exactly what the two files hold, with
\* the files' counts and keys, whatever the store held before the call.
C33_LoadReplaces ==
    [][(LoadStep /\ last'.outcome = "ok" /\ last'.loaded)
         => /\ index' = ReadIndex(index_file)
            /\ ntotal(index') = index_file.ntotal
            /\ product_ids' = metadata_file.product_ids
            /\ product_metadata' = PickleLoad(metadata_file).product_metadata
            /\ DOMAIN product_metadata'
                 = {it[1] : it \in metadata_file.items}]_vars

\* C33 witness: a store that held entries was loaded from a snapshot of
\* one product without metadata, and now holds that one entry and nothing
\* else.
C33_Witness ==
    /\ last.op = "load_index"
    /\ last.outcome = "ok"
    /\ last.loaded
    /\ ~last.fresh
    /\ index_file.ntotal = 1
    /\ ntotal(index) = 1
    /\ product_ids = metadata_file.product_ids
    /\ Len(product_ids) = 1
    /\ DOMAIN product_metadata = {}

\* C34: metadata is kept per product id, not per position.  When an id
\* already in the store is added again, every match a search then returns
\* for that id, at the old position and at the new one, carries the
\* metadata of the new call if that is non-empty, and otherwise the
\* metadata the store held for the id before the call.
C34_MetadataKeyedById ==
    [][DuplicateAdd
         => LET pid == last'.product_id
                M == IF Truthy(last'.metadata) THEN last'.metadata[1]
                     ELSE DictGet(product_metadata, pid, EmptyDict)
            IN  \A q \in LiveEmbeddings(dimension) :
                    LET r == search(index', product_ids', product_metadata',
                                    q, get_index_size(index'), 0)
                        Of == {i \in 1..Len(r.results) :
                                  r.results[i].product_id = pid}
                    IN  /\ r.outcome = "ok"
                        /\ \E i, j \in Of :
                               /\ r.hits[i].idx + 1 = Len(product_ids')
                               /\ r.hits[j].idx + 1 < Len(product_ids')
                        /\ \A i \in Of :
                               /\ r.results[i].product_name
                                    = DictGet(M, "name", None)
                               /\ r.results[i].product_image_url
                                    = DictGet(M, "image_url", None)
                               /\ r.results[i].price
                                    = DictGet(M, "price", None)]_vars

\* C34 witness: an id stored with name, image URL and price was added
\* again without metadata; the store holds the id at two positions and
\* the metadata of the first call.
C34_Witness ==
    /\ last.op = "add_product"
    /\ last.outcome = "ok"
    /\ last.metadata = NoMetadata
    /\ Len(product_ids) = 2
    /\ product_ids[1] = last.product_id
    /\ product_ids[2] = last.product_id
    /\ last.product_id \in DOMAIN product_metadata
    /\ product_metadata[last.product_id] = Meta1

\* C35: load_index called when the index file does not exist returns
\* without error and changes nothing, on a store that holds entries as on
\* a fresh one: the vector index, the id list, the metadata map and the
\* files are as they were before the call.
C35_LoadWithoutFileIsNoOp ==
    [][(LoadStep /\ index_file = NoFile)
         => /\ last'.outcome = "ok"
            /\ ~last'.loaded
            /\ index' = index
            /\ product_ids' = product_ids
            /\ product_metadata' = product_metadata
            /\ disk' = disk]_vars

\* C35 witness: load_index found no index file on a store of two entries
\* with metadata, and the store still holds them.
C35_Witness ==
    /\ last.op = "load_index"
    /\ last.outcome = "ok"
    /\ ~last.loaded
    /\ ~last.fresh
    /\ index_file = NoFile
    /\ ntotal(index) = 2
    /\ Len(product_ids) = 2
    /\ DOMAIN product_metadata # {}

\* The places of a search result whose match carries product id pid, and
\* the positions of the store that hold pid.
MatchesOf(pid) == {i \in 1..Len(last.results) : last.results[i].product_id = pid}
PositionsOf(pid) == {p \in 1..Len(product_ids) : product_ids[p] = pid}

\* C36: no stored position appears more than once in one search result:
\* the candidates the index returns are pairwise distinct positions of
\* the index, there are no more matches than candidates, and a product id
\* occurs in the result at most as often as it occurs in the store, so
\* twice only if it was added twice.
C36_DistinctPositions ==
    (last.op = "search" /\ last.outcome = "ok")
      => /\ \A i, j \in 1..Len(last.hits) :
                i # j => last.hits[i].idx # last.hits[j].idx
         /\ \A i \in 1..Len(last.hits) :
                last.hits[i].idx \in 0..(get_index_size(index) - 1)
         /\ Len(last.results) <= Len(last.hits)
         /\ \A pid \in ProductIds :
                Cardinality(MatchesOf(pid)) <= Cardinality(PositionsOf(pid))

\* C36 witness: a search of a store of three entries, two of them under
\* one id, returned three matches: that id twice, the other id once.
C36_Witness ==
    /\ last.op = "search"
    /\ last.outcome = "ok"
    /\ Len(product_ids) = 3
    /\ Len(last.results) = 3
    /\ \E pid \in ProductIds :
           /\ Cardinality(MatchesOf(pid)) = 2
           /\ Cardinality(PositionsOf(pid)) = 2

=============================================================================
